---- MODULE Spec2Model ----
(***************************************************************************)
(* The tree-hole deletion scheduler of src/handler/tree_hole.rs.           *)
(*                                                                         *)
(* State: the external message store (Discord), the handler's registry    *)
(* `msgs` (HashMap<MessageId, JoinHandle>), the spawned timer tasks, and   *)
(* the position and locals of the event handlers that are in progress.     *)
(* Every step is one stretch of handler code between two points where      *)
(* another handler, a timer or the store can act (serenity dispatches      *)
(* handlers on a thread pool, tree_hole.rs:23-24).                         *)
(*                                                                         *)
(* Time is kept relative: a message carries its age (now - timestamp), a   *)
(* sleeping timer its remaining sleep; Tick advances both.  Ages saturate  *)
(* at MaxTtl, beyond which `dur - age > 0` is false for every channel.     *)
(***************************************************************************)
EXTENDS Integers, Sequences, FiniteSets, TLC

VARIABLES
    store,      \* the message store: per message id its state, pin flag, age
    msgs,       \* TreeHoleHandler::msgs: message id -> task id (0: no entry)
    tasks,      \* the tokio tasks spawned by the handlers (the timers)
    hm,         \* the `message` handler in progress
    sw,         \* the handlers that sweep: channel_pins_update, cache_ready/resume
    tree_holes, \* BOT_CONFIG.load().tree_holes: channel -> TTL (in ticks)
    events,     \* the number of events the gateway has dispatched to the handlers
    shielded,   \* history: pinned messages a cancellation step has covered
    log,        \* history: what each of two successive sweeps did (SpecIdem)
    lock        \* the RwLock around msgs: its write guard and its read guards

vars == <<store, msgs, tasks, hm, sw, tree_holes, events, shielded, log, lock>>

----------------------------------------------------------------------------
(* Bounds and configuration *)

MaxMsgs == 1        \* message ids 1..MaxMsgs are posted, in this order
MaxEvents == 2      \* events dispatched to the handlers in one behaviour
Ttl1 == 1           \* the TTL of tree hole 1, in ticks
Ttl2 == 2           \* the TTL of tree hole 2, in ticks
MaxBatch == 201     \* largest expired batch handed to the executor (SpecChunk)
IdemMsgs == 2       \* messages in the store when two sweeps follow each other (SpecIdem)
LockCand == 2       \* candidates of one pass when the guards are followed (SpecLock)
ChunkSize == 100    \* old.chunks(100)

MsgIds == 1..MaxMsgs
MaxTasks == MaxMsgs + 1     \* timer tasks alive at once: room for a duplicate
TaskIds == DOMAIN tasks
Channels == {1, 2, 3}
Foreign == 0        \* a message of channel 3, which is not a tree hole

\* msg.channel_id
ChanOf(m) == IF m \in DOMAIN store THEN store[m].chan ELSE 3

Slots == {"pins", "conn"}

NoTask == [st |-> "free", msg |-> 0, rem |-> 0]
NoMsg == [st |-> "none", chan |-> 0, pinned |-> FALSE, age |-> 0]
IdleM == [pc |-> "idle", msg |-> 0, h |-> 0]
IdleS == [pc |-> "idle", chan |-> 0, ts |-> FALSE, pinned |-> {}, todo |-> {},
          messages |-> <<>>, cand |-> <<>>, h |-> 0, old |-> <<>>, ret |-> "none"]
\* RwLock::default(): no guard is out.  The handlers below take a guard and drop
\* it within one step (no await lies between); SpecLock follows the guards.
Unlocked == [writer |-> "none", readers |-> {}]
\* run = 0: nothing is logged; run = 1, 2: the first, the second sweep is logged
NoLog == [run |-> 0, ins |-> <<{}, {}>>, calls |-> << <<>>, <<>> >>, seen |-> {},
          clean |-> TRUE]

----------------------------------------------------------------------------
(* Helpers *)

Max(a, b) == IF a > b THEN a ELSE b
Min(a, b) == IF a < b THEN a ELSE b

\* the largest TTL of the configuration: an age beyond it is expired everywhere
MaxTtl == CHOOSE d \in {tree_holes[c] : c \in DOMAIN tree_holes} :
              \A c \in DOMAIN tree_holes : tree_holes[c] <= d

\* the ids of S, a set of message ids, as a sequence: newest (largest
\* snowflake) first
SeqOfDesc(S) ==
    LET n == Cardinality(DOMAIN store)
        In(x) == x \in S
    IN SelectSeq([i \in 1..n |-> n + 1 - i], In)

Range(s) == {s[i] : i \in 1..Len(s)}

\* HashMap::keys of the registry
Keys(reg) == {m \in DOMAIN reg : reg[m] # 0}

\* JoinHandle::is_finished
IsFinished(tk, t) == tk[t].st = "finished"

\* the task ids some JoinHandle still names: registry values and handler locals
Refs(reg, a, b) == ({reg[m] : m \in DOMAIN reg} \cup {a.h} \cup {b[k].h : k \in Slots}) \ {0}

\* a finished task whose last JoinHandle is dropped is gone
Reap(tk, reg, a, b) ==
    [t \in TaskIds |-> IF tk[t].st = "finished" /\ t \notin Refs(reg, a, b)
                       THEN NoTask ELSE tk[t]]

FreeTasks == {t \in TaskIds : tasks[t].st = "free"}
NewTask == CHOOSE t \in FreeTasks : \A u \in FreeTasks : t <= u

\* tokio::spawn of `sleep(d); msg.delete()`
Spawned(tk, t, m, d) == [tk EXCEPT ![t] = [st |-> "sleeping", msg |-> m, rem |-> d]]

\* Http delete of the ids `ids`: the messages are gone from the store
Deleted(st, ids) ==
    [m \in DOMAIN st |-> IF m \in ids /\ st[m].st = "live"
                         THEN [st[m] EXCEPT !.st = "deleted", !.pinned = FALSE]
                         ELSE st[m]]

----------------------------------------------------------------------------
(* History of two successive sweeps: which ids each sweep inserted, the delete
   calls it issued, which channels the first one fetched, and whether every
   store call of the first one succeeded *)

LogFetch(c, ok) ==
    IF log.run = 1
    THEN [log EXCEPT !.seen = IF ok THEN @ \cup {c} ELSE @, !.clean = @ /\ ok]
    ELSE log

LogInsert(m) ==
    IF log.run = 0 THEN log ELSE [log EXCEPT !.ins[log.run] = @ \cup {m}]

LogCall(call) ==
    IF log.run = 0 THEN log
    ELSE [log EXCEPT !.calls[log.run] = Append(@, call),
                     !.clean = IF log.run = 1 THEN @ /\ call.ok ELSE @]

----------------------------------------------------------------------------
(* The environment: users, the gateway, the clock, the timers *)

\* the gateway dispatches one more event to a handler
Dispatch == events < MaxEvents /\ events' = events + 1

\* A user posts message m in the tree hole c.  `observed`: the gateway delivers
\* the message event; otherwise the bot is disconnected and misses it.
Post(m, c, observed) ==
    /\ store[m].st = "none"
    /\ \A n \in DOMAIN store : n < m => store[n].st # "none"
    /\ store' = [store EXCEPT ![m] = [st |-> "live", chan |-> c, pinned |-> FALSE, age |-> 0]]
    /\ IF observed
       THEN hm.pc = "idle" /\ hm' = [IdleM EXCEPT !.pc = "start", !.msg = m] /\ Dispatch
       ELSE UNCHANGED <<hm, events>>
    /\ UNCHANGED <<msgs, tasks, sw, tree_holes, shielded, log, lock>>

\* The message event of a message in a channel that is not a tree hole.
PostForeign ==
    /\ hm.pc = "idle"
    /\ hm' = [IdleM EXCEPT !.pc = "start", !.msg = Foreign]
    /\ Dispatch
    /\ UNCHANGED <<store, msgs, tasks, sw, tree_holes, shielded, log, lock>>

\* the ChannelPinsUpdateEvent as the handler receives it
PinsEvent(c, ts) == [IdleS EXCEPT !.pc = "recv", !.chan = c, !.ts = ts]

\* A user pins m.  The event carries the time of this pin; the bot misses it
\* when it is disconnected (observed = FALSE).
Pin(m, observed) ==
    /\ store[m].st = "live" /\ ~store[m].pinned
    /\ store' = [store EXCEPT ![m].pinned = TRUE]
    /\ IF observed
       THEN /\ sw["pins"].pc = "idle"
            /\ sw' = [sw EXCEPT !["pins"] = PinsEvent(ChanOf(m), TRUE)]
            /\ Dispatch
       ELSE UNCHANGED <<sw, events>>
    /\ UNCHANGED <<msgs, tasks, hm, tree_holes, shielded, log, lock>>

\* A user unpins m, and the gateway delivers the event.  last_pin_timestamp is
\* absent when the channel has no pin left.
Unpin(m) ==
    /\ store[m].st = "live" /\ store[m].pinned
    /\ store' = [store EXCEPT ![m].pinned = FALSE]
    /\ shielded' = shielded \ {m}
    /\ sw["pins"].pc = "idle"
    /\ LET left == \E n \in DOMAIN store :
                       n # m /\ store[n].chan = ChanOf(m) /\ store[n].pinned
       IN sw' = [sw EXCEPT !["pins"] = PinsEvent(ChanOf(m), left)]
    /\ Dispatch
    /\ UNCHANGED <<msgs, tasks, hm, tree_holes, log, lock>>

\* A pin event of a channel that is not a tree hole.
PinForeign ==
    /\ sw["pins"].pc = "idle"
    /\ sw' = [sw EXCEPT !["pins"] = PinsEvent(3, TRUE)]
    /\ Dispatch
    /\ UNCHANGED <<store, msgs, tasks, hm, tree_holes, shielded, log, lock>>

\* One unit of time passes.
Tick ==
    /\ store' = [m \in DOMAIN store |->
                    IF store[m].st = "none" THEN store[m]
                    ELSE [store[m] EXCEPT !.age = Min(@ + 1, MaxTtl)]]
    /\ tasks' = [t \in TaskIds |->
                    IF tasks[t].st = "sleeping"
                    THEN [tasks[t] EXCEPT !.rem = Max(@ - 1, 0)] ELSE tasks[t]]
    /\ UNCHANGED <<msgs, hm, sw, tree_holes, events, shielded, log, lock>>

\* TimerFire as a task that took itself out of the registry on completion
TimerFire_SelfRemoving(t, ok) ==
    /\ tasks[t].st = "sleeping" /\ tasks[t].rem = 0
    /\ store' = IF ok THEN Deleted(store, {tasks[t].msg}) ELSE store
    /\ msgs' = [m \in DOMAIN msgs |-> IF msgs[m] = t THEN 0 ELSE msgs[m]]
    /\ tasks' = Reap([tasks EXCEPT ![t] = [st |-> "finished", msg |-> @.msg, rem |-> 0]],
                     msgs', hm, sw)
    /\ UNCHANGED <<hm, sw, tree_holes, events, shielded, log, lock>>

\* The spawned task: sleep(dur) is over, msg.delete() is called and the task
\* ends, whether the call succeeded (ok) or returned Err (logged).
TimerFire(t, ok) ==
    /\ tasks[t].st = "sleeping" /\ tasks[t].rem = 0
    /\ store' = IF ok THEN Deleted(store, {tasks[t].msg}) ELSE store
    /\ tasks' = Reap([tasks EXCEPT ![t] = [st |-> "finished", msg |-> @.msg, rem |-> 0]],
                     msgs, hm, sw)
    /\ UNCHANGED <<msgs, hm, sw, tree_holes, events, shielded, log, lock>>

----------------------------------------------------------------------------
(* TreeHoleHandler::message *)

\* HashMap::insert: an entry of the same key is replaced and its JoinHandle
\* dropped, which detaches the task and leaves it running
Insert(reg, m, t) == [reg EXCEPT ![m] = t]

\* msgs.retain(|_, handle| !handle.is_finished())
Retain(reg, tk) ==
    [m \in DOMAIN reg |-> IF reg[m] # 0 /\ IsFinished(tk, reg[m]) THEN 0 ELSE reg[m]]

\* the TTL lookup and the spawn of the timer
message_spawn ==
    /\ hm.pc = "start"
    /\ IF ChanOf(hm.msg) \notin DOMAIN tree_holes
       THEN hm' = IdleM /\ UNCHANGED tasks
       ELSE /\ FreeTasks # {}
            /\ tasks' = Spawned(tasks, NewTask, hm.msg, tree_holes[ChanOf(hm.msg)])
            /\ hm' = [hm EXCEPT !.pc = "insert", !.h = NewTask]
    /\ UNCHANGED <<store, msgs, sw, tree_holes, events, shielded, log, lock>>

\* under the write lock: insert the handle, then prune the finished ones
message_insert ==
    /\ hm.pc = "insert"
    /\ msgs' = Retain(Insert(msgs, hm.msg, hm.h), tasks)
    /\ hm' = IdleM
    /\ tasks' = Reap(tasks, msgs', hm', sw)
    /\ UNCHANGED <<store, sw, tree_holes, events, shielded, log, lock>>

----------------------------------------------------------------------------
(* TreeHoleHandler::delete_messages and delete_in_channel *)

\* messages.into_iter().filter(test), by id
SelectIds(messages, keys) ==
    LET Test(msg) == msg.id \notin keys /\ ~msg.pinned
        kept == SelectSeq(messages, Test)
    IN [i \in 1..Len(kept) |-> kept[i].id]

\* Candidates without the membership test
Candidates_IgnoringKeys(messages, keys) == SelectIds(messages, {})

\* Candidates without the test of the pin flag
Candidates_IgnoringPins(messages, keys) ==
    LET Test(msg) == msg.id \notin keys
        kept == SelectSeq(messages, Test)
    IN [i \in 1..Len(kept) |-> kept[i].id]

\* .filter(|msg| !keys.contains(&msg.id) && !msg.pinned)
Candidates(messages, keys) == SelectIds(messages, keys)

\* channel_id.messages_iter(..).try_collect(): the channel's messages, newest first
History(c) ==
    LET ids == SeqOfDesc({m \in DOMAIN store : store[m].st = "live" /\ store[m].chan = c})
    IN [i \in 1..Len(ids) |-> [id |-> ids[i], pinned |-> store[ids[i]].pinned]]

\* NewDur that comes out one tick short
NewDur_OneShort(dur, age) == dur - age - 1

\* NewDur that forgets the time the message has already lived
NewDur_IgnoringAge(dur, age) == dur

\* delta - (now - msg.timestamp)
NewDur(dur, age) == dur - age

\* the next chunk of old.chunks(100)
Chunk(old) == SubSeq(old, 1, Min(ChunkSize, Len(old)))

\* Call without the special case of a chunk of one
Call_AlwaysBatch(c, chunk, ok) ==
    [kind |-> "delete_messages", chan |-> c, ids |-> chunk, ok |-> ok]

\* the call the executor issues for a chunk
Call(c, chunk, ok) ==
    [kind |-> IF Len(chunk) = 1 THEN "delete_message" ELSE "delete_messages",
     chan |-> c, ids |-> chunk, ok |-> ok]

\* delete_in_channel returns; delete_messages goes on to the next channel, or returns
PassDone(r) ==
    IF r.todo = {}
    THEN [IdleS EXCEPT !.ret = "swept"]
    ELSE [IdleS EXCEPT !.pc = "sweep", !.todo = r.todo]

\* AfterLoop returning before the expired batch is executed
AfterLoop_NoExecutor(r) ==
    IF r.cand # <<>> THEN [r EXCEPT !.pc = "loop"] ELSE PassDone(r)

\* the head of the for loop over the candidates, then the loop over the chunks
AfterLoop(r) ==
    IF r.cand # <<>> THEN [r EXCEPT !.pc = "loop"]
    ELSE IF r.old # <<>> THEN [r EXCEPT !.pc = "chunks"]
    ELSE PassDone(r)

\* delete_in_channel_fetch with the error of one channel ending the whole sweep
delete_in_channel_fetch_AbortsSweep(k, c, ok) ==
    LET r == sw[k] IN
    /\ r.pc = "sweep" /\ c \in r.todo
    /\ sw' = [sw EXCEPT ![k] =
                IF ok THEN [r EXCEPT !.pc = "keys", !.chan = c, !.todo = @ \ {c},
                                     !.messages = History(c)]
                ELSE [IdleS EXCEPT !.ret = "swept"]]
    /\ log' = LogFetch(c, ok)
    /\ UNCHANGED <<store, msgs, tasks, hm, tree_holes, events, shielded, lock>>

\* delete_messages takes the next channel of tree_holes.iter() (a HashMap: any
\* order) and delete_in_channel drains its history; on Err the channel is skipped
delete_in_channel_fetch(k, c, ok) ==
    LET r == sw[k] IN
    /\ r.pc = "sweep" /\ c \in r.todo
    /\ sw' = [sw EXCEPT ![k] =
                IF ok THEN [r EXCEPT !.pc = "keys", !.chan = c, !.todo = @ \ {c},
                                     !.messages = History(c)]
                ELSE PassDone([r EXCEPT !.todo = @ \ {c}])]
    /\ log' = LogFetch(c, ok)
    /\ UNCHANGED <<store, msgs, tasks, hm, tree_holes, events, shielded, lock>>

\* under the read lock: the keys of the registry; the filter then fixes the candidates
delete_in_channel_keys(k) ==
    LET r == sw[k] IN
    /\ r.pc = "keys"
    /\ sw' = [sw EXCEPT ![k] = AfterLoop([r EXCEPT !.messages = <<>>,
                                  !.cand = Candidates(r.messages, Keys(msgs))])]
    /\ UNCHANGED <<store, msgs, tasks, hm, tree_holes, events, shielded, log, lock>>

\* one candidate: its remaining time; a timer is spawned, or the id goes to `old`
delete_in_channel_decide(k) ==
    LET r == sw[k]
        m == Head(r.cand)
        new_dur == NewDur(tree_holes[r.chan], store[m].age)
    IN
    /\ r.pc = "loop"
    /\ IF new_dur > 0
       THEN /\ FreeTasks # {}
            /\ tasks' = Spawned(tasks, NewTask, m, new_dur)
            /\ sw' = [sw EXCEPT ![k] = [r EXCEPT !.pc = "insert", !.h = NewTask]]
       ELSE /\ sw' = [sw EXCEPT ![k] =
                        AfterLoop([r EXCEPT !.cand = Tail(@), !.old = Append(@, m)])]
            /\ UNCHANGED tasks
    /\ UNCHANGED <<store, msgs, hm, tree_holes, events, shielded, log, lock>>

\* delete_in_channel_insert followed by the prune of the message handler
delete_in_channel_insert_Pruning(k) ==
    LET r == sw[k] IN
    /\ r.pc = "insert"
    /\ msgs' = Retain(Insert(msgs, Head(r.cand), r.h), tasks)
    /\ sw' = [sw EXCEPT ![k] = AfterLoop([r EXCEPT !.cand = Tail(@), !.h = 0])]
    /\ tasks' = Reap(tasks, msgs', hm, sw')
    /\ log' = LogInsert(Head(r.cand))
    /\ UNCHANGED <<store, hm, tree_holes, events, shielded, lock>>

\* under the write lock: the handle goes into the registry (nothing is pruned)
delete_in_channel_insert(k) ==
    LET r == sw[k] IN
    /\ r.pc = "insert"
    /\ msgs' = Insert(msgs, Head(r.cand), r.h)
    /\ sw' = [sw EXCEPT ![k] = AfterLoop([r EXCEPT !.cand = Tail(@), !.h = 0])]
    /\ tasks' = Reap(tasks, msgs', hm, sw')
    /\ log' = LogInsert(Head(r.cand))
    /\ UNCHANGED <<store, hm, tree_holes, events, shielded, lock>>

\* delete_in_channel_chunk with the error of a call ending the pass
delete_in_channel_chunk_AbortsOnErr(k, ok) ==
    LET r == sw[k]
        chunk == Chunk(r.old)
        rest == SubSeq(r.old, Len(chunk) + 1, Len(r.old))
        r2 == [r EXCEPT !.old = rest]
    IN
    /\ r.pc = "chunks"
    /\ store' = IF ok THEN Deleted(store, Range(chunk)) ELSE store
    /\ sw' = [sw EXCEPT ![k] = IF rest = <<>> \/ ~ok THEN PassDone(r2) ELSE r2]
    /\ log' = LogCall(Call(r.chan, chunk, ok))
    /\ UNCHANGED <<msgs, tasks, hm, tree_holes, events, shielded, lock>>

\* the executor: one chunk of `old`, one call; Err is logged and the loop goes on
delete_in_channel_chunk(k, ok) ==
    LET r == sw[k]
        chunk == Chunk(r.old)
        rest == SubSeq(r.old, Len(chunk) + 1, Len(r.old))
        r2 == [r EXCEPT !.old = rest]
    IN
    /\ r.pc = "chunks"
    /\ store' = IF ok THEN Deleted(store, Range(chunk)) ELSE store
    /\ sw' = [sw EXCEPT ![k] = IF rest = <<>> THEN PassDone(r2) ELSE r2]
    /\ log' = LogCall(Call(r.chan, chunk, ok))
    /\ UNCHANGED <<msgs, tasks, hm, tree_holes, events, shielded, lock>>

\* delete_messages is entered: the channels of the configuration are to be swept
Sweeping == [IdleS EXCEPT !.pc = "sweep", !.todo = DOMAIN tree_holes]

----------------------------------------------------------------------------
(* TreeHoleHandler::channel_pins_update, cache_ready, resume *)

\* event.channel_id.pins(): the messages pinned in the channel
Pins(c) == {m \in DOMAIN store : store[m].st = "live" /\ store[m].chan = c /\ store[m].pinned}

\* channel_pins_update_fetch without the early return on a missing timestamp
channel_pins_update_fetch_NoTsSweeps(ok) ==
    LET r == sw["pins"] IN
    /\ r.pc = "recv"
    /\ sw' = [sw EXCEPT !["pins"] =
                IF r.chan \notin DOMAIN tree_holes THEN [IdleS EXCEPT !.ret = "not_tree_hole"]
                ELSE IF ~r.ts THEN Sweeping
                ELSE IF ~ok THEN [IdleS EXCEPT !.ret = "pins_failed"]
                ELSE [r EXCEPT !.pc = "cancel", !.pinned = Pins(r.chan)]]
    /\ UNCHANGED <<store, msgs, tasks, hm, tree_holes, events, shielded, log, lock>>

\* channel_pins_update_fetch falling through to the sweep when the fetch fails
channel_pins_update_fetch_FailSweeps(ok) ==
    LET r == sw["pins"] IN
    /\ r.pc = "recv"
    /\ sw' = [sw EXCEPT !["pins"] =
                IF r.chan \notin DOMAIN tree_holes THEN [IdleS EXCEPT !.ret = "not_tree_hole"]
                ELSE IF ~r.ts THEN [IdleS EXCEPT !.ret = "no_timestamp"]
                ELSE IF ~ok THEN Sweeping
                ELSE [r EXCEPT !.pc = "cancel", !.pinned = Pins(r.chan)]]
    /\ UNCHANGED <<store, msgs, tasks, hm, tree_holes, events, shielded, log, lock>>

\* channel_pins_update_fetch without the lookup of the channel
channel_pins_update_fetch_AnyChannel(ok) ==
    LET r == sw["pins"] IN
    /\ r.pc = "recv"
    /\ sw' = [sw EXCEPT !["pins"] =
                IF ~r.ts THEN [IdleS EXCEPT !.ret = "no_timestamp"]
                ELSE IF ~ok THEN [IdleS EXCEPT !.ret = "pins_failed"]
                ELSE [r EXCEPT !.pc = "cancel", !.pinned = Pins(r.chan)]]
    /\ UNCHANGED <<store, msgs, tasks, hm, tree_holes, events, shielded, log, lock>>

\* the two early returns, then the fetch of the pins, which may fail (ok = FALSE)
channel_pins_update_fetch(ok) ==
    LET r == sw["pins"] IN
    /\ r.pc = "recv"
    /\ sw' = [sw EXCEPT !["pins"] =
                IF r.chan \notin DOMAIN tree_holes THEN [IdleS EXCEPT !.ret = "not_tree_hole"]
                ELSE IF ~r.ts THEN [IdleS EXCEPT !.ret = "no_timestamp"]
                ELSE IF ~ok THEN [IdleS EXCEPT !.ret = "pins_failed"]
                ELSE [r EXCEPT !.pc = "cancel", !.pinned = Pins(r.chan)]]
    /\ UNCHANGED <<store, msgs, tasks, hm, tree_holes, events, shielded, log, lock>>

\* msgs.remove of every pinned message
Removed(reg, pinned) == [m \in DOMAIN reg |-> IF m \in pinned THEN 0 ELSE reg[m]]

\* handle.abort() of the handles in `hs`: a sleeping task is cancelled
Aborted(tk, hs) == [t \in TaskIds |-> IF t \in hs THEN NoTask ELSE tk[t]]

\* under the write lock: the entries of the pinned messages are removed and
\* their tasks aborted; delete_messages follows
channel_pins_update_cancel ==
    LET r == sw["pins"] IN
    /\ r.pc = "cancel"
    /\ msgs' = Removed(msgs, r.pinned)
    /\ tasks' = Aborted(tasks, {msgs[m] : m \in r.pinned \cap Keys(msgs)})
    /\ sw' = [sw EXCEPT !["pins"] = Sweeping]
    /\ shielded' = shielded \cup {m \in r.pinned : store[m].st = "live" /\ store[m].pinned}
    /\ UNCHANGED <<store, hm, tree_holes, events, log, lock>>

\* the cache is ready after a (re)connect: sweep
cache_ready ==
    /\ sw["conn"].pc = "idle"
    /\ log.run = 0
    /\ sw' = [sw EXCEPT !["conn"] = Sweeping]
    /\ Dispatch
    /\ UNCHANGED <<store, msgs, tasks, hm, tree_holes, shielded, log, lock>>

\* the session is resumed: sweep
resume ==
    /\ sw["conn"].pc = "idle"
    /\ log.run \in {0, 1}
    /\ sw' = [sw EXCEPT !["conn"] = Sweeping]
    /\ log' = IF log.run = 1 THEN [log EXCEPT !.run = 2] ELSE log
    /\ Dispatch
    /\ UNCHANGED <<store, msgs, tasks, hm, tree_holes, shielded, lock>>

----------------------------------------------------------------------------
(* The scheduler under every interleaving of events, handlers and timers *)

Init ==
    /\ store = [m \in MsgIds |-> NoMsg]
    /\ msgs = [m \in MsgIds |-> 0]
    /\ tasks = [t \in 1..MaxTasks |-> NoTask]
    /\ hm = IdleM
    /\ sw = [k \in Slots |-> IdleS]
    /\ tree_holes = (1 :> Ttl1)
    /\ events = 0
    /\ shielded = {}
    /\ log = NoLog
    /\ lock = Unlocked

Next ==
    \/ \E m \in DOMAIN store, c \in DOMAIN tree_holes, o \in BOOLEAN : Post(m, c, o)
    \/ PostForeign
    \/ \E m \in DOMAIN store, o \in BOOLEAN : Pin(m, o)
    \/ \E m \in DOMAIN store : Unpin(m)
    \/ PinForeign
    \/ Tick
    \/ \E t \in TaskIds, ok \in BOOLEAN : TimerFire(t, ok)
    \/ message_spawn
    \/ message_insert
    \/ \E ok \in BOOLEAN : channel_pins_update_fetch(ok)
    \/ channel_pins_update_cancel
    \/ cache_ready
    \/ resume
    \/ \E k \in Slots, c \in DOMAIN tree_holes, ok \in BOOLEAN : delete_in_channel_fetch(k, c, ok)
    \/ \E k \in Slots : delete_in_channel_keys(k)
    \/ \E k \in Slots : delete_in_channel_decide(k)
    \/ \E k \in Slots : delete_in_channel_insert(k)
    \/ \E k \in Slots, ok \in BOOLEAN : delete_in_channel_chunk(k, ok)

Spec == Init /\ [][Next]_vars

----------------------------------------------------------------------------
(* Properties of the scheduler under Spec *)

\* the timers of message m that are still to fire
Pending(m) == {t \in TaskIds : tasks[t].st = "sleeping" /\ tasks[t].msg = m}

Quiescent == hm.pc = "idle" /\ \A k \in Slots : sw[k].pc = "idle"

\* the cancellation step of channel_pins_update is taken
CancelStep == sw["pins"].pc = "cancel" /\ sw'["pins"].pc # "cancel"

\* handler k comes to the end of delete_in_channel with Ok(())
PassCompleted(k) ==
    /\ sw[k].pc \in {"keys", "loop", "insert", "chunks"}
    /\ sw'[k].pc \in {"sweep", "idle"}

\* channel_pins_update takes its first step on an event of a tree hole
PinsStep == sw["pins"].pc = "recv" /\ sw'["pins"] # sw["pins"]
             /\ sw["pins"].chan \in DOMAIN tree_holes

\* the timer task t runs to its end (cancellation is a step of the pins handler)
Fired(t) == tasks[t].st = "sleeping" /\ tasks'[t].st # "sleeping" /\ UNCHANGED <<hm, sw>>

\* C1 (as claimed): a message that was pinned when a pin event with a timestamp
\* was processed with a successful fetch, and has stayed pinned, is never
\* deleted, and has no registry entry once the pins handler has returned.
C1_PinnedIsSafe ==
    \A m \in shielded :
        /\ store[m].st # "deleted"
        /\ sw["pins"].pc = "idle" => msgs[m] = 0

\* C2 (as claimed): when a cancellation step or a reconciliation pass
\* completes, no message that is pinned in the store has a registry entry.
C2_PinExclusion ==
    [][(CancelStep \/ \E k \in Slots : PassCompleted(k))
        => \A m \in DOMAIN store :
              store'[m].st = "live" /\ store'[m].pinned => msgs'[m] = 0]_vars

\* C3 (as claimed): a pin event of a tree hole without a last-pin timestamp
\* cancels nothing and goes on to the sweep over all configured channels.
C3_NoTimestampStillSweeps ==
    [][PinsStep /\ ~sw["pins"].ts
        => msgs' = msgs /\ sw'["pins"] = Sweeping]_vars

\* C3 (amended): a pin event of a tree hole without a last-pin timestamp makes
\* the handler return at once: nothing is cancelled, no store call is made and
\* no sweep is started.
C3_NoTimestampReturns ==
    [][PinsStep /\ ~sw["pins"].ts
        => /\ sw'["pins"] = [IdleS EXCEPT !.ret = "no_timestamp"]
           /\ UNCHANGED <<store, msgs, tasks>>]_vars

C3_Witness == sw["pins"].ret = "no_timestamp"

\* C4 (as claimed): when the fetch of the pins fails, the registry is left as
\* it is and the sweep still runs.
C4_FetchFailureStillSweeps ==
    [][PinsStep /\ sw["pins"].ts /\ sw'["pins"].pc # "cancel"
        => msgs' = msgs /\ sw'["pins"] = Sweeping]_vars

\* C4 (amended): when the fetch of the pins fails, the registry is left as it
\* is and the handler returns: no sweep is started.
C4_FetchFailureReturns ==
    [][PinsStep /\ sw["pins"].ts /\ sw'["pins"].pc # "cancel"
        => /\ sw'["pins"] = [IdleS EXCEPT !.ret = "pins_failed"]
           /\ UNCHANGED <<store, msgs, tasks>>]_vars

C4_Witness == sw["pins"].ret = "pins_failed"

\* C5 (as claimed): once a timer has fired and issued its delete call, the
\* registry holds no entry for its message.
C5_TimerRemovesItsEntry ==
    [][\A t \in TaskIds : Fired(t) => msgs'[tasks[t].msg] = 0]_vars

\* C5 (amended): a timer that fires leaves the registry as it is, its entry
\* included; finished entries are gone after the insertion of the next
\* message handler, which prunes them.
C5_EntryStaysUntilPruned ==
    [][/\ \A t \in TaskIds : Fired(t) => msgs' = msgs
       /\ hm.pc = "insert" /\ hm'.pc = "idle"
            => \A m \in Keys(msgs') : ~IsFinished(tasks', msgs'[m])]_vars

C5_Witness == \E m \in Keys(msgs) : IsFinished(tasks, msgs[m])

\* C6 (as claimed): an unpinned message that is still in the store after its
\* timer has fired (the delete call failed) is a candidate of the next pass.
C6_FailedDeleteIsCandidate ==
    [][\A k \in Slots : \A i \in 1..Len(sw[k].messages) :
          LET m == sw[k].messages[i].id IN
          /\ sw[k].pc = "keys" /\ sw'[k].pc # "keys"
          /\ ~sw[k].messages[i].pinned
          /\ store[m].st = "live" /\ ~store[m].pinned /\ Pending(m) = {}
          => m \in Range(sw'[k].cand)]_vars

\* C7 (as claimed): with no handler in progress, no message has two pending
\* timers.
C7_OneTimerPerMessage ==
    Quiescent => \A m \in DOMAIN store : Cardinality(Pending(m)) <= 1

----------------------------------------------------------------------------
(* SpecLive: the scheduler with a healthy store and no pins, under the
   fairness of the runtime: time passes, a timer whose sleep is over runs, a
   handler that can take its next step takes it *)

NextLive ==
    \/ \E m \in DOMAIN store, c \in DOMAIN tree_holes, o \in BOOLEAN : Post(m, c, o)
    \/ Tick
    \/ \E t \in TaskIds : TimerFire(t, TRUE)
    \/ message_spawn
    \/ message_insert
    \/ cache_ready
    \/ resume
    \/ \E c \in DOMAIN tree_holes : delete_in_channel_fetch("conn", c, TRUE)
    \/ delete_in_channel_keys("conn")
    \/ delete_in_channel_decide("conn")
    \/ delete_in_channel_insert("conn")
    \/ delete_in_channel_chunk("conn", TRUE)

Fairness ==
    /\ WF_vars(Tick)
    /\ \A t \in 1..MaxTasks : WF_vars(TimerFire(t, TRUE))
    /\ WF_vars(message_spawn)
    /\ WF_vars(message_insert)
    /\ \A c \in {1} : WF_vars(delete_in_channel_fetch("conn", c, TRUE))
    /\ WF_vars(delete_in_channel_keys("conn"))
    /\ WF_vars(delete_in_channel_decide("conn"))
    /\ WF_vars(delete_in_channel_insert("conn"))
    /\ WF_vars(delete_in_channel_chunk("conn", TRUE))

SpecLive == Init /\ [][NextLive]_vars /\ Fairness

\* the message event of m has been dispatched
Observed(m) == hm.pc = "start" /\ hm.msg = m

\* a sweep is about to fetch the channel in which m, missed or not, is
FoundBySweep(m) ==
    /\ store[m].st = "live"
    /\ sw["conn"].pc = "sweep" /\ store[m].chan \in sw["conn"].todo

\* C8: with a healthy store and no pin, a message whose event was dispatched,
\* and a message that a sweep is about to find, is eventually deleted.
C8_EventuallyDeleted ==
    \A m \in MsgIds : (Observed(m) \/ FoundBySweep(m)) ~> (store[m].st = "deleted")

\* a missed message (the only event dispatched was the sweep) has been deleted
C8_Witness ==
    \E m \in DOMAIN store :
        store[m].st = "deleted" /\ events = 1 /\ sw["conn"].ret = "swept"

----------------------------------------------------------------------------
(* SpecIdem: two sweeps in succession, with no event and no timer firing in
   between.  The bot has just (re)connected: cache_ready has been dispatched,
   resume follows once the first sweep has returned. *)

StoreStates ==
    {NoMsg} \cup [st : {"live"}, chan : {1, 2}, pinned : BOOLEAN, age : 0..Max(Ttl1, Ttl2)]

InitIdem ==
    /\ tree_holes = (1 :> Ttl1) @@ (2 :> Ttl2)
    /\ store \in [1..IdemMsgs -> StoreStates]
    /\ \A m, n \in 1..IdemMsgs :
          m < n => /\ store[m].st = "none" => store[n].st = "none"
                   /\ store[n].st = "live" => store[m].age >= store[n].age
    /\ \E trk \in SUBSET {m \in 1..IdemMsgs : store[m].st = "live"} :
          /\ msgs = [m \in 1..IdemMsgs |-> IF m \in trk THEN m ELSE 0]
          /\ tasks = [t \in 1..IdemMsgs |->
                        IF t \in trk
                        THEN [st |-> "sleeping", msg |-> t,
                              rem |-> Max(tree_holes[store[t].chan] - store[t].age, 0)]
                        ELSE NoTask]
    /\ hm = IdleM
    /\ sw = [k \in Slots |-> IF k = "conn" THEN Sweeping ELSE IdleS]
    /\ events = 1
    /\ shielded = {}
    /\ log = [NoLog EXCEPT !.run = 1]
    /\ lock = Unlocked

NextIdem ==
    \/ Tick
    \/ resume
    \/ \E c \in DOMAIN tree_holes, ok \in BOOLEAN : delete_in_channel_fetch("conn", c, ok)
    \/ delete_in_channel_keys("conn")
    \/ delete_in_channel_decide("conn")
    \/ delete_in_channel_insert("conn")
    \/ \E ok \in BOOLEAN : delete_in_channel_chunk("conn", ok)

SpecIdem == InitIdem /\ [][NextIdem]_vars

RECURSIVE CallIds(_)
\* the ids the calls `calls` ask the store to delete, in the order of the calls
CallIds(calls) == IF calls = <<>> THEN <<>> ELSE Head(calls).ids \o CallIds(Tail(calls))

\* the ids of the calls of `calls` that failed
FailedIds(calls) ==
    UNION {Range(calls[i].ids) : i \in {j \in 1..Len(calls) : ~calls[j].ok}}

\* C9: the second of two successive sweeps gives no message a second timer;
\* what it inserts or deletes is what the first sweep could not see (the fetch
\* of the channel failed) or could not delete (the call failed); after a first
\* sweep without a failed store call it inserts nothing and deletes nothing.
C9_SecondSweepIdempotent ==
    /\ \A m \in DOMAIN store : Cardinality(Pending(m)) <= 1
    /\ \A m \in log.ins[2] : store[m].chan \notin log.seen
    /\ \A m \in Range(CallIds(log.calls[2])) :
          store[m].chan \notin log.seen \/ m \in FailedIds(log.calls[1])
    /\ log.clean => log.ins[2] = {} /\ log.calls[2] = <<>>

\* both sweeps have returned; the first scheduled a timer and deleted a message
C9_Witness ==
    /\ log.run = 2 /\ sw["conn"].pc = "idle"
    /\ log.clean /\ log.ins[1] # {} /\ log.calls[1] # <<>>

----------------------------------------------------------------------------
(* SpecChunk: one pass over a channel that holds N expired, unpinned, untracked
   messages, N = 0..MaxBatch *)

InitChunk ==
    \E n \in 0..MaxBatch :
        /\ tree_holes = (1 :> Ttl1)
        /\ store = [m \in 1..n |-> [st |-> "live", chan |-> 1, pinned |-> FALSE, age |-> Ttl1]]
        /\ msgs = [m \in 1..n |-> 0]
        /\ tasks = [t \in 1..1 |-> NoTask]
        /\ hm = IdleM
        /\ sw = [k \in Slots |-> IF k = "conn" THEN Sweeping ELSE IdleS]
        /\ events = 1
        /\ shielded = {}
        /\ log = [NoLog EXCEPT !.run = 1]
        /\ lock = Unlocked

NextChunk ==
    \/ \E c \in DOMAIN tree_holes, ok \in BOOLEAN : delete_in_channel_fetch("conn", c, ok)
    \/ delete_in_channel_keys("conn")
    \/ delete_in_channel_decide("conn")
    \/ \E ok \in BOOLEAN : delete_in_channel_chunk("conn", ok)

SpecChunk == InitChunk /\ [][NextChunk]_vars

\* the expired batch of the pass: every message of the channel, newest first
Batch == SeqOfDesc(DOMAIN store)

\* the pass has returned Ok(())
ChunkDone == sw["conn"].pc = "idle" /\ 1 \in log.seen

\* C10: the executor issues ceil(N / 100) calls, each for at most 100 ids and
\* all but the last for exactly 100; the calls cover the batch in order, each
\* id once; a call is delete_message exactly when its chunk has one id; for
\* N = 0 there is no call.
C10_Chunking ==
    LET calls == log.calls[1]
        n == Len(Batch)
    IN
    /\ \A i \in 1..Len(calls) :
          /\ Len(calls[i].ids) \in 1..ChunkSize
          /\ i < Len(calls) => Len(calls[i].ids) = ChunkSize
          /\ calls[i].kind = (IF Len(calls[i].ids) = 1 THEN "delete_message"
                                                       ELSE "delete_messages")
    /\ sw["conn"].pc = "chunks" => CallIds(calls) \o sw["conn"].old = Batch
    /\ ChunkDone => /\ CallIds(calls) = Batch
                    /\ Len(calls) = (n + ChunkSize - 1) \div ChunkSize

\* a batch of 2 * 100 + 1 ids has gone out as two batch calls and a single one
C10_Witness ==
    /\ ChunkDone
    /\ Len(log.calls[1]) = 3
    /\ log.calls[1][1].kind = "delete_messages" /\ Len(log.calls[1][2].ids) = ChunkSize
    /\ log.calls[1][3].kind = "delete_message"

----------------------------------------------------------------------------
(* Properties of one reconciliation pass *)

\* the pass of handler k decides its next candidate in this step
Decides(k) == sw[k].pc = "loop" /\ sw'[k] # sw[k]

\* the pass of handler k inserts the handle of its candidate in this step
Inserts(k) == sw[k].pc = "insert" /\ sw'[k] # sw[k]

\* C11: a candidate with remaining = ttl - age > 0 gets a timer that sleeps for
\* exactly `remaining` (so it fires at created_at + ttl), which is then inserted
\* at the candidate's id, and the candidate does not go to the expired batch; a
\* candidate with remaining <= 0 goes to the expired batch and no timer and no
\* Registry entry is made for it.
C11_ClassifiedByRemaining ==
    [][\A k \in Slots :
         LET r == sw[k]
             m == Head(r.cand)
             remaining == tree_holes[r.chan] - store[m].age
         IN /\ Decides(k) /\ remaining > 0 =>
                 /\ sw'[k].pc = "insert" /\ sw'[k].old = r.old
                 /\ tasks[sw'[k].h].st = "free"
                 /\ tasks'[sw'[k].h] = [st |-> "sleeping", msg |-> m, rem |-> remaining]
                 /\ msgs' = msgs
            /\ Decides(k) /\ remaining <= 0 =>
                 /\ sw'[k].old = Append(r.old, m)
                 /\ m \notin Range(sw'[k].cand)
                 /\ msgs' = msgs /\ tasks' = tasks
            /\ Inserts(k) =>
                 /\ tasks[r.h].msg = m
                 /\ msgs' = [msgs EXCEPT ![m] = r.h]
                 /\ sw'[k].old = r.old /\ m \notin Range(r.old)]_vars

\* one pass has scheduled a message of the channel and holds an expired one
C11_Witness ==
    /\ sw["conn"].pc = "chunks" /\ sw["conn"].old # <<>>
    /\ \E m \in log.ins[1] : store[m].chan = sw["conn"].chan /\ msgs[m] # 0

\* the history fetch of the next channel of handler k's sweep fails in this step
FetchFails(k) == sw[k].pc = "sweep" /\ sw'[k] # sw[k] /\ sw'[k].pc # "keys"

\* C12: a failed history fetch costs the sweep exactly the channel that failed:
\* nothing is scheduled or deleted in this step, and every other channel still
\* to be swept stays to be swept (the sweep does not return while one is left).
C12_ChannelIsolation ==
    [][\A k \in Slots :
         /\ sw[k].pc = "sweep" => sw[k].todo # {}
         /\ FetchFails(k) =>
              /\ UNCHANGED <<store, msgs, tasks>>
              /\ log'.ins = log.ins /\ log'.calls = log.calls
              /\ \E c \in sw[k].todo :
                    /\ sw'[k].todo = sw[k].todo \ {c}
                    /\ sw'[k].pc = (IF sw'[k].todo = {} THEN "idle" ELSE "sweep")]_vars

\* a sweep has returned: the fetch of channel 1 failed, channel 2 was swept and
\* a message of channel 2 scheduled or deleted
C12_Witness ==
    /\ log.run = 1 /\ sw["conn"].ret = "swept" /\ log.seen = {2}
    /\ \E m \in DOMAIN store : store[m].chan = 1 /\ store[m].st = "live" /\ msgs[m] = 0
    /\ log.ins[1] # {} \/ log.calls[1] # <<>>

\* the pass of handler k takes its keys snapshot and filters in this step
Filters(k) == sw[k].pc = "keys" /\ sw'[k] # sw[k]

\* the pass of handler k takes a step after its filter
PassStep(k) == sw[k].pc \in {"loop", "insert", "chunks"} /\ sw'[k] # sw[k]

\* the ids the pass of handler k may still schedule or delete
Work(r) == Range(r.cand) \cup Range(r.old)

\* C15: a message of the fetched history that is pinned, or whose id is in the
\* Registry, is not made a candidate by the filter, and what is not a candidate
\* the pass leaves untouched: its Registry entry and its timer stay as they are
\* and it is in no delete call.  A pinned message is never inserted or deleted
\* by either sweep.
C15_TrackedAndPinnedUntouched ==
    [][/\ \A m \in DOMAIN store :
            store[m].pinned =>
                /\ m \notin log.ins[1] \cup log.ins[2]
                /\ m \notin Range(CallIds(log.calls[1])) \cup Range(CallIds(log.calls[2]))
       /\ \A k \in Slots :
            /\ Filters(k) =>
                 /\ UNCHANGED <<store, msgs, tasks>>
                 /\ \A i \in 1..Len(sw[k].messages) :
                       LET msg == sw[k].messages[i] IN
                       msg.pinned \/ msgs[msg.id] # 0 => msg.id \notin Work(sw'[k])
            /\ PassStep(k) =>
                 \A m \in DOMAIN store \ Work(sw[k]) :
                     /\ m \notin Work(sw'[k])
                     /\ msgs'[m] = msgs[m] /\ store'[m] = store[m]
                     /\ msgs[m] # 0 => tasks'[msgs[m]] = tasks[msgs[m]]]_vars

\* a pass has filtered a channel that holds a pinned message, a tracked one
\* or both, and has found another message to schedule or delete
C15_Witness ==
    LET r == sw["conn"] IN
    /\ r.pc = "loop"
    /\ \E m \in DOMAIN store \ Work(r) :
          /\ store[m].st = "live" /\ store[m].chan = r.chan
          /\ store[m].pinned \/ msgs[m] # 0

\* the TTL of the channel of message m
TtlOf(m) == tree_holes[store[m].chan]

\* C16: no delete call goes out for a message younger than the TTL of its
\* channel: a timer that has slept its time (its next step is the delete call)
\* belongs to a message of age >= ttl, a timer still sleeping will have slept
\* enough when it wakes, and every id of an expired batch has age >= ttl.
C16_NeverEarly ==
    /\ \A t \in TaskIds :
          tasks[t].st = "sleeping" => store[tasks[t].msg].age + tasks[t].rem >= TtlOf(tasks[t].msg)
    /\ \A k \in Slots : \A m \in Range(sw[k].old) : store[m].age >= TtlOf(m)

\* a timer of the live path and an expired batch are both about to delete
C16_Witness ==
    /\ \E t \in TaskIds : tasks[t].st = "sleeping" /\ tasks[t].rem = 0 /\ msgs[tasks[t].msg] = t
    /\ \E k \in Slots : sw[k].pc = "chunks"

\* the message handler inserts (and prunes) in this step
LiveInserts == hm.pc = "insert" /\ hm'.pc # "insert"

\* the Registry `reg` holds the handle of a timer that has finished
HoldsFinished(reg, tk) == \E m \in Keys(reg) : IsFinished(tk, reg[m])

\* C17 (as claimed): right after an insertion, by the message handler or by a
\* pass, the Registry holds no entry whose timer has finished.
C17_PrunedAfterEveryInsertion ==
    [][LiveInserts \/ (\E k \in Slots : Inserts(k)) => ~HoldsFinished(msgs', tasks')]_vars

\* C17 (amended): the message handler prunes after its insertion, and right
\* after it the Registry holds no finished entry; a pass only inserts: every
\* other entry, finished or not, stays, and a handle that has finished by the
\* time it is inserted stays too.
C17_PrunedOnLivePathOnly ==
    [][/\ LiveInserts => ~HoldsFinished(msgs', tasks')
       /\ \A k \in Slots :
            Inserts(k) => msgs' = [msgs EXCEPT ![Head(sw[k].cand)] = sw[k].h]]_vars

\* the only event so far was a sweep, which has returned, and the Registry
\* holds a finished entry that no prune has removed
C17_Witness ==
    /\ events = 1 /\ sw["conn"].ret = "swept"
    /\ HoldsFinished(msgs, tasks)

\* the message handler takes its first step in this step
MessageStep == hm.pc = "start" /\ hm' # hm

\* the pins handler takes its first step in this step
PinsFirstStep == sw["pins"].pc = "recv" /\ sw'["pins"] # sw["pins"]

\* C18: the handler of a message event, and of a pins event, of a channel that
\* is not configured returns in its first step: the Registry, the timers and
\* the store are as before, and no handler is left sweeping.
C18_UnconfiguredIgnored ==
    [][/\ MessageStep /\ ChanOf(hm.msg) \notin DOMAIN tree_holes =>
            hm' = IdleM /\ UNCHANGED <<store, msgs, tasks, sw>>
       /\ PinsFirstStep /\ sw["pins"].chan \notin DOMAIN tree_holes =>
            /\ sw'["pins"] = [IdleS EXCEPT !.ret = "not_tree_hole"]
            /\ UNCHANGED <<store, msgs, tasks, hm>>]_vars

\* both events of a channel that is not a tree hole have been dispatched, and
\* the pins handler has returned from its lookup
C18_Witness ==
    /\ sw["pins"].ret = "not_tree_hole" /\ sw["conn"] = IdleS
    /\ hm.pc = "start" /\ hm.msg = Foreign
    /\ events = 2 /\ msgs = [m \in MsgIds |-> 0]

\* the handler that spawned timer t has not inserted its handle yet
BeingInserted(t) == hm.h = t \/ \E k \in Slots : sw[k].h = t

\* C20: every timer that is still sleeping is the one the Registry holds for
\* its message, unless the handler that spawned it has yet to insert it.
C20_NoOrphanTimers ==
    \A t \in TaskIds :
        tasks[t].st = "sleeping" => msgs[tasks[t].msg] = t \/ BeingInserted(t)

----------------------------------------------------------------------------
(* Properties of the executor under SpecChunk *)

\* the delete call the executor of handler k issues in this step returns Err
ChunkFails(k) ==
    /\ sw[k].pc = "chunks" /\ sw'[k] # sw[k]
    /\ ~log'.calls[1][Len(log'.calls[1])].ok

\* C13: a delete call that fails deletes nothing and its ids leave the batch
\* (no retry: no id is ever passed to two calls); the executor goes on with the
\* chunks that are left, and the pass returns once none is left.
C13_PartialFailure ==
    [][LET r == sw["conn"]
           calls == log.calls[1]
           rest == SubSeq(r.old, Min(ChunkSize, Len(r.old)) + 1, Len(r.old))
       IN /\ \A i, j \in 1..Len(calls) :
                i < j => Range(calls[i].ids) \cap Range(calls[j].ids) = {}
          /\ ChunkFails("conn") =>
                /\ store' = store
                /\ Len(log'.calls[1]) = Len(calls) + 1
                /\ IF rest # <<>>
                   THEN sw'["conn"].pc = "chunks" /\ sw'["conn"].old = rest
                   ELSE sw'["conn"] = [IdleS EXCEPT !.ret = "swept"]]_vars

\* the pass has returned; its first call failed, and two more calls went out
C13_Witness ==
    /\ sw["conn"].ret = "swept" /\ Len(log.calls[1]) = 3
    /\ ~log.calls[1][1].ok /\ log.calls[1][2].ok
    /\ store[Len(Batch)].st = "live" /\ store[2].st = "deleted"

----------------------------------------------------------------------------
(* Properties of a pass that runs next to other handlers, under Spec *)

\* C14: a candidate whose id is in the Registry when the pass decides it (a
\* message handler registered it after the pass started) is not scheduled by
\* the pass: no timer is spawned for it.
C14_MembershipAtDecision ==
    [][\A k \in Slots :
         Decides(k) /\ msgs[Head(sw[k].cand)] # 0 =>
             tasks' = tasks /\ sw'[k].pc # "insert"]_vars

----------------------------------------------------------------------------
(* SpecLock: the handlers step by step through their await points, the guards
   of the RwLock followed from the await that takes them to the end of the
   scope that drops them.  What the handlers do to the Registry, the timers
   and the store is left out here: it is what the actions above do. *)

Data == <<store, msgs, tasks, tree_holes, events, shielded, log>>

Holders == {"message"} \cup Slots

\* the gateway dispatches a message event (m = Foreign: not a tree hole)
lk_message_event(m) ==
    /\ hm.pc = "idle"
    /\ hm' = [IdleM EXCEPT !.pc = "start", !.msg = m]
    /\ UNCHANGED <<sw, lock>> /\ UNCHANGED Data

\* message, l.26-37: the lookup, the spawn; then self.msgs.write() is awaited
lk_message_spawn ==
    /\ hm.pc = "start"
    /\ hm' = IF ChanOf(hm.msg) \notin DOMAIN tree_holes THEN IdleM
             ELSE [hm EXCEPT !.pc = "lock_w"]
    /\ UNCHANGED <<sw, lock>> /\ UNCHANGED Data

\* message, l.39: the write guard is granted
lk_message_lock ==
    /\ hm.pc = "lock_w" /\ lock = Unlocked
    /\ lock' = [lock EXCEPT !.writer = "message"]
    /\ hm' = [hm EXCEPT !.pc = "held_w"]
    /\ UNCHANGED sw /\ UNCHANGED Data

\* message, l.40-43: insert, retain; the guard is dropped when the function ends
lk_message_insert ==
    /\ hm.pc = "held_w"
    /\ lock' = [lock EXCEPT !.writer = "none"]
    /\ hm' = IdleM
    /\ UNCHANGED sw /\ UNCHANGED Data

\* the gateway dispatches a pins event
lk_pins_event(c, ts) ==
    /\ sw["pins"].pc = "idle"
    /\ sw' = [sw EXCEPT !["pins"] = PinsEvent(c, ts)]
    /\ UNCHANGED <<hm, lock>> /\ UNCHANGED Data

\* channel_pins_update, l.46-53: the two returns; then pins() is called and awaited
lk_pins_call ==
    LET r == sw["pins"] IN
    /\ r.pc = "recv"
    /\ sw' = [sw EXCEPT !["pins"] =
                IF r.chan \notin DOMAIN tree_holes THEN [IdleS EXCEPT !.ret = "not_tree_hole"]
                ELSE IF ~r.ts THEN [IdleS EXCEPT !.ret = "no_timestamp"]
                ELSE [r EXCEPT !.pc = "pins_call"]]
    /\ UNCHANGED <<hm, lock>> /\ UNCHANGED Data

\* channel_pins_update, l.53-61: pins() returns; on Ok self.msgs.write() is awaited
lk_pins_result(ok) ==
    LET r == sw["pins"] IN
    /\ r.pc = "pins_call"
    /\ sw' = [sw EXCEPT !["pins"] =
                IF ok THEN [r EXCEPT !.pc = "lock_c"] ELSE [IdleS EXCEPT !.ret = "pins_failed"]]
    /\ UNCHANGED <<hm, lock>> /\ UNCHANGED Data

\* channel_pins_update, l.61: the write guard is granted
lk_pins_lock ==
    /\ sw["pins"].pc = "lock_c" /\ lock = Unlocked
    /\ lock' = [lock EXCEPT !.writer = "pins"]
    /\ sw' = [sw EXCEPT !["pins"].pc = "held_c"]
    /\ UNCHANGED hm /\ UNCHANGED Data

\* lk_pins_cancel with the guard living to the end of the function
lk_pins_cancel_KeepsGuard ==
    /\ sw["pins"].pc = "held_c"
    /\ sw' = [sw EXCEPT !["pins"] = Sweeping]
    /\ UNCHANGED <<hm, lock>> /\ UNCHANGED Data

\* channel_pins_update, l.62-67: remove and abort; the guard is dropped at the
\* end of the block (l.66), then delete_messages is entered
lk_pins_cancel ==
    /\ sw["pins"].pc = "held_c"
    /\ lock' = [lock EXCEPT !.writer = "none"]
    /\ sw' = [sw EXCEPT !["pins"] = Sweeping]
    /\ UNCHANGED hm /\ UNCHANGED Data

\* the gateway dispatches cache_ready or resume: delete_messages is entered
lk_conn_event ==
    /\ sw["conn"].pc = "idle"
    /\ sw' = [sw EXCEPT !["conn"] = Sweeping]
    /\ UNCHANGED <<hm, lock>> /\ UNCHANGED Data

\* delete_in_channel, l.86-89: the history of the next channel is asked for
lk_history_call(k, c) ==
    LET r == sw[k] IN
    /\ r.pc = "sweep" /\ c \in r.todo
    /\ sw' = [sw EXCEPT ![k] = [r EXCEPT !.pc = "hist_call", !.chan = c, !.todo = @ \ {c}]]
    /\ UNCHANGED <<hm, lock>> /\ UNCHANGED Data

\* delete_in_channel, l.89-94: the history arrives, or Err; on Ok
\* self.msgs.read() is awaited
lk_history_result(k, ok) ==
    LET r == sw[k] IN
    /\ r.pc = "hist_call"
    /\ sw' = [sw EXCEPT ![k] = IF ok THEN [r EXCEPT !.pc = "lock_r"] ELSE PassDone(r)]
    /\ UNCHANGED <<hm, lock>> /\ UNCHANGED Data

\* delete_in_channel, l.91-94: a read guard is granted
lk_read_lock(k) ==
    /\ sw[k].pc = "lock_r" /\ lock.writer = "none"
    /\ lock' = [lock EXCEPT !.readers = @ \cup {k}]
    /\ sw' = [sw EXCEPT ![k].pc = "held_r"]
    /\ UNCHANGED hm /\ UNCHANGED Data

\* delete_in_channel, l.95-102: the keys are cloned and the guard, a temporary,
\* is dropped at the end of the statement (l.97); n candidates pass the filter
lk_keys(k, n) ==
    LET r == sw[k] IN
    /\ r.pc = "held_r"
    /\ lock' = [lock EXCEPT !.readers = @ \ {k}]
    /\ sw' = [sw EXCEPT ![k] = AfterLoop([r EXCEPT !.cand = [i \in 1..n |-> 1]])]
    /\ UNCHANGED hm /\ UNCHANGED Data

\* delete_in_channel, l.103-119: the candidate is to be scheduled (a timer is
\* spawned and self.msgs.write() awaited) or is pushed to old
lk_decide(k, schedule) ==
    LET r == sw[k] IN
    /\ r.pc = "loop"
    /\ sw' = [sw EXCEPT ![k] =
                IF schedule THEN [r EXCEPT !.pc = "lock_w"]
                ELSE AfterLoop([r EXCEPT !.cand = Tail(@), !.old = Append(@, Head(r.cand))])]
    /\ UNCHANGED <<hm, lock>> /\ UNCHANGED Data

\* delete_in_channel, l.115: the write guard is granted
lk_write_lock(k) ==
    /\ sw[k].pc = "lock_w" /\ lock = Unlocked
    /\ lock' = [lock EXCEPT !.writer = k]
    /\ sw' = [sw EXCEPT ![k].pc = "held_w"]
    /\ UNCHANGED hm /\ UNCHANGED Data

\* delete_in_channel, l.116-117: insert; the guard is dropped at the end of the
\* if block
lk_insert(k) ==
    LET r == sw[k] IN
    /\ r.pc = "held_w"
    /\ lock' = [lock EXCEPT !.writer = "none"]
    /\ sw' = [sw EXCEPT ![k] = AfterLoop([r EXCEPT !.cand = Tail(@)])]
    /\ UNCHANGED hm /\ UNCHANGED Data

\* delete_in_channel, l.121-132: the delete call of the next chunk is made
lk_delete_call(k) ==
    /\ sw[k].pc = "chunks"
    /\ sw' = [sw EXCEPT ![k].pc = "del_call"]
    /\ UNCHANGED <<hm, lock>> /\ UNCHANGED Data

\* delete_in_channel, l.124-137: the call returns, Ok or Err
lk_delete_result(k) ==
    LET r == sw[k]
        rest == SubSeq(r.old, Len(Chunk(r.old)) + 1, Len(r.old))
    IN
    /\ r.pc = "del_call"
    /\ sw' = [sw EXCEPT ![k] = IF rest = <<>> THEN PassDone([r EXCEPT !.old = rest])
                               ELSE [r EXCEPT !.pc = "chunks", !.old = rest]]
    /\ UNCHANGED <<hm, lock>> /\ UNCHANGED Data

InitLock ==
    /\ store = [m \in MsgIds |-> [st |-> "live", chan |-> 1, pinned |-> FALSE, age |-> 0]]
    /\ msgs = [m \in MsgIds |-> 0]
    /\ tasks = [t \in 1..MaxTasks |-> NoTask]
    /\ hm = IdleM
    /\ sw = [k \in Slots |-> IdleS]
    /\ tree_holes = (1 :> Ttl1) @@ (2 :> Ttl2)
    /\ events = 0
    /\ shielded = {}
    /\ log = NoLog
    /\ lock = Unlocked

NextLock ==
    \/ \E m \in {1, Foreign} : lk_message_event(m)
    \/ lk_message_spawn
    \/ lk_message_lock
    \/ lk_message_insert
    \/ \E c \in Channels, ts \in BOOLEAN : lk_pins_event(c, ts)
    \/ lk_pins_call
    \/ \E ok \in BOOLEAN : lk_pins_result(ok)
    \/ lk_pins_lock
    \/ lk_pins_cancel
    \/ lk_conn_event
    \/ \E k \in Slots, c \in DOMAIN tree_holes : lk_history_call(k, c)
    \/ \E k \in Slots, ok \in BOOLEAN : lk_history_result(k, ok)
    \/ \E k \in Slots : lk_read_lock(k)
    \/ \E k \in Slots, n \in 0..LockCand : lk_keys(k, n)
    \/ \E k \in Slots, schedule \in BOOLEAN : lk_decide(k, schedule)
    \/ \E k \in Slots : lk_write_lock(k)
    \/ \E k \in Slots : lk_insert(k)
    \/ \E k \in Slots : lk_delete_call(k)
    \/ \E k \in Slots : lk_delete_result(k)

SpecLock == InitLock /\ [][NextLock]_vars

\* handler h holds a guard of the lock
Holds(h) == lock.writer = h \/ h \in lock.readers

\* handler k is suspended on a call to the store
AwaitsStore(k) == sw[k].pc \in {"pins_call", "hist_call", "del_call"}

\* handler h is inside one of the scopes that hold a guard: its next step drops it
InCriticalSection(h) ==
    IF h = "message" THEN hm.pc = "held_w"
    ELSE sw[h].pc \in {"held_c", "held_r", "held_w"}

\* C19: a handler that is suspended on a store call (the history, the pins, a
\* delete) holds no guard of the Registry lock; whoever holds a guard is in a
\* critical section that has no store call in it, so the lock is free whenever
\* every handler is idle, suspended on the store or waiting for the lock.
C19_NoLockAcrossStoreCalls ==
    /\ \A k \in Slots : AwaitsStore(k) => ~Holds(k)
    /\ \A h \in Holders : Holds(h) => InCriticalSection(h)
    /\ (\A h \in Holders : ~InCriticalSection(h)) => lock = Unlocked

\* the message handler holds the write guard while both sweeping handlers are
\* suspended on the store
C19_Witness ==
    /\ lock.writer = "message"
    /\ sw["pins"].pc = "hist_call" /\ sw["conn"].pc = "del_call"

====
